---- MODULE Spec2Model ----
(***************************************************************************)
(* The IMAP STORE handler of src/helpers/imap/on-store.js (onStore).       *)
(*                                                                         *)
(* One invocation of onStore is a process that moves from one `await` to   *)
(* the next; everything the handler runs between two awaits is one atomic  *)
(* step.  The SELECT, the better-sqlite3 transaction and everything up to  *)
(* the call of releaseLock are synchronous, hence one step (Transaction).  *)
(*                                                                         *)
(* Arrays that the code always rebuilds with `[...new Set(..)]` (message   *)
(* flags, mailbox flags) are sets of exact strings; update.value keeps its *)
(* order and its repetitions, so it is a sequence.                         *)
(***************************************************************************)
EXTENDS Integers, Sequences, FiniteSets, TLC

(* ---------------------------- bounds ----------------------------------- *)
\* number of STORE commands a behaviour runs after the initial state
MaxCommands == 1
\* longest flag list of a command
MaxValueLen == 2
\* largest UNCHANGEDSINCE value a command carries
MaxUnchangedSince == 1

(* ------------------------ program constants ---------------------------- *)
MaxMailboxFlags == 100

AllProcs == {1, 2}
SeqProcs == {1}

\* rows of the Messages table of the one mailbox
UIDs == {1, 2}
\* identifiers a client may still name (3 was expunged by another session)
KnownUIDs == {1, 2, 3}

FlagUniverse == {"\\Seen", "\\Flagged", "\\Deleted", "\\Draft", "foo", "Foo"}
\* flags that occur in lists longer than one
MultiFlags == {"foo", "Foo"}

systemFlags == <<"\\answered", "\\flagged", "\\draft", "\\deleted", "\\seen">>

\* f.trim().toLowerCase() on the flags of the model (none has white space)
getFlag(f) ==
  CASE f = "\\Seen" -> "\\seen"
    [] f = "\\Flagged" -> "\\flagged"
    [] f = "\\Deleted" -> "\\deleted"
    [] f = "\\Draft" -> "\\draft"
    [] f = "\\Answered" -> "\\answered"
    [] f = "Foo" -> "foo"
    [] OTHER -> f

Range(s) == {s[i] : i \in 1..Len(s)}
SeqsUpTo(S, n) == UNION {[1..k -> S] : k \in 0..n}

\* update.unchangedSince is undefined
NoGuard == 0 - 1
\* newModseq is still undefined
NoModseq == 0

SpecialUses == {"", "\\Trash", "\\Junk"}
\* number of custom mailbox flags other than "foo" and "Foo"
OtherFlagCounts == {0, 94, 99}

(* ------------------------------ inputs --------------------------------- *)
Values == SeqsUpTo(FlagUniverse, 1) \cup SeqsUpTo(MultiFlags, MaxValueLen)
Guards == {NoGuard} \cup (0..MaxUnchangedSince)

FlagUpdates ==
  [action : {"set", "add", "remove"}, value : Values,
   messages : {{1}, {1, 2}, {3}}, unchangedSince : Guards,
   silent : {FALSE}, isUid : {TRUE}]
FlagSelected == [uidList : {{1}, {1, 2}}, condstoreEnabled : {FALSE}]

RespUpdates ==
  [action : {"set", "add", "remove", "other"}, value : SeqsUpTo(FlagUniverse, 1),
   messages : {{1, 2}}, unchangedSince : {NoGuard},
   silent : BOOLEAN, isUid : BOOLEAN]
RespSelected == [uidList : {{1, 2}}, condstoreEnabled : BOOLEAN]

\* commands whose action the switch does not know, on a message the SELECT
\* finds (and the unchangedSince guard may skip) or does not find
UnknownUpdates ==
  [action : {"other"}, value : {<<>>, <<"foo">>}, messages : {{1}, {3}},
   unchangedSince : {NoGuard, 1}, silent : {FALSE}, isUid : {TRUE}]
UnknownSelected == [uidList : {{1, 2}}, condstoreEnabled : {FALSE}]

Commands ==
  (FlagUpdates \X FlagSelected) \cup (RespUpdates \X RespSelected)
    \cup (UnknownUpdates \X UnknownSelected)
\* the commands a forwarding handler sends to the worker
ForwardedCommands == RespUpdates \X RespSelected

\* the commands of two sessions that run at the same time
TwoUpdates ==
  [action : {"set", "add", "remove"}, value : {<<"\\Seen">>, <<"foo">>},
   messages : {{1}, {1, 2}}, unchangedSince : {NoGuard, 1},
   silent : {FALSE}, isUid : {TRUE}]
TwoSelected == [uidList : {{1, 2}}, condstoreEnabled : {FALSE}]
TwoCommands == TwoUpdates \X TwoSelected

NoUpdate ==
  [action |-> "none", value |-> <<>>, messages |-> {}, unchangedSince |-> NoGuard,
   silent |-> FALSE, isUid |-> FALSE]
NoSelected == [uidList |-> {}, condstoreEnabled |-> FALSE]

(* ------------------------------ state ---------------------------------- *)
VARIABLES
  messages,    \* Messages table: uid -> row
  mailbox,     \* the Mailboxes row
  lock,        \* holder of the lock on session.db, 0 when free
  pc,          \* where each invocation of onStore stands
  wsp,         \* this.wsp: the invocation forwards to a worker
  mbox,        \* const mailbox = await Mailboxes.findOne(..)
  update,      \* the command the transaction step ran
  selected,    \* session.selected as the transaction step read it
  pre,         \* the tables as the transaction step found them
  err,         \* let err: what the transaction body threw
  modified,    \* const modified
  writeStream, \* const writeStream
  entries,     \* const entries
  updated,     \* uids for which `updated` was true
  acquired,    \* acquireLock has returned a lock to this invocation
  released,    \* releaseLock has been called by this invocation
  notifyFailed,\* notifier.addEntries has rejected
  refreshed,   \* refreshSession has been called by this invocation
  wrote,       \* the transaction of this invocation committed a write
  releaseFailed, \* releaseLock has rejected
  handed,      \* entries passed to notifier.addEntries
  workerOut,   \* what the worker's callback received
  stream,      \* responses written to session.writeStream
  outcome,     \* what the caller's callback fn received
  calls,       \* number of times fn was called
  invocations  \* number of times onStore has been invoked

dbVars == <<messages, mailbox, lock>>
txVars == <<update, selected, pre, err, modified, writeStream, entries, updated>>
cbVars == <<workerOut, stream, outcome, calls>>
auxVars == <<refreshed, wrote, releaseFailed>>
vars == <<messages, mailbox, lock, pc, wsp, mbox, update, selected, pre, err,
          modified, writeStream, entries, updated, acquired, released,
          notifyFailed, refreshed, wrote, releaseFailed, handed, workerOut,
          stream, outcome, calls, invocations>>

(* ------------------- the per-message state machine --------------------- *)
\* const existingFlags = new Set(message.flags.map((f) => getFlag(f)))
ExistingFlags(row) == {getFlag(f) : f \in row.flags}

\* case 'set': the new flags, whether they are an update, and the row with $set
SetAction(row, value) ==
  LET existingFlags == ExistingFlags(row)
      upd == \/ Cardinality(existingFlags) # Len(value)
             \/ \E i \in 1..Len(value) : getFlag(value[i]) \notin existingFlags
      flags == Range(value)
  IN [updated |-> upd, flags |-> flags,
      row |-> IF upd
              THEN [row EXCEPT !.flags = flags,
                               !.unseen = "\\Seen" \notin flags,
                               !.flagged = "\\Flagged" \in flags,
                               !.undeleted = "\\Deleted" \notin flags,
                               !.draft = "\\Draft" \in flags,
                               !.searchable = "\\Deleted" \notin flags]
              ELSE row]

\* case 'add' that never clears unseen
AddAction_KeepsUnseen(row, value) ==
  LET existingFlags == ExistingFlags(row)
      newFlags == SelectSeq(value, LAMBDA f : getFlag(f) \notin existingFlags)
      upd == newFlags # <<>>
      flags == row.flags \cup Range(newFlags)
      new == Range(newFlags)
  IN [updated |-> upd, flags |-> flags,
      row |-> IF upd
              THEN [row EXCEPT
                      !.flags = flags,
                      !.flagged = IF "\\Flagged" \in new THEN TRUE ELSE @,
                      !.undeleted = IF "\\Deleted" \in new THEN FALSE ELSE @,
                      !.searchable = IF "\\Deleted" \in new THEN FALSE ELSE @,
                      !.draft = IF "\\Draft" \in new THEN TRUE ELSE @]
              ELSE row]

\* case 'add' that does not look at the flags the message already has
AddAction_AlwaysNew(row, value) ==
  LET newFlags == value
      upd == newFlags # <<>>
      flags == row.flags \cup Range(newFlags)
      new == Range(newFlags)
  IN [updated |-> upd, flags |-> flags,
      row |-> IF upd
              THEN [row EXCEPT
                      !.flags = flags,
                      !.unseen = IF "\\Seen" \in new THEN FALSE ELSE @,
                      !.flagged = IF "\\Flagged" \in new THEN TRUE ELSE @,
                      !.undeleted = IF "\\Deleted" \in new THEN FALSE ELSE @,
                      !.searchable = IF "\\Deleted" \in new THEN FALSE ELSE @,
                      !.draft = IF "\\Draft" \in new THEN TRUE ELSE @]
              ELSE row]

\* case 'add'
AddAction(row, value) ==
  LET existingFlags == ExistingFlags(row)
      newFlags == SelectSeq(value, LAMBDA f : getFlag(f) \notin existingFlags)
      upd == newFlags # <<>>
      flags == row.flags \cup Range(newFlags)
      new == Range(newFlags)
  IN [updated |-> upd, flags |-> flags,
      row |-> IF upd
              THEN [row EXCEPT
                      !.flags = flags,
                      !.unseen = IF "\\Seen" \in new THEN FALSE ELSE @,
                      !.flagged = IF "\\Flagged" \in new THEN TRUE ELSE @,
                      !.undeleted = IF "\\Deleted" \in new THEN FALSE ELSE @,
                      !.searchable = IF "\\Deleted" \in new THEN FALSE ELSE @,
                      !.draft = IF "\\Draft" \in new THEN TRUE ELSE @]
              ELSE row]

\* the undelete that restores searchable in every mailbox
SearchableAfterUndelete_Everywhere(searchable, specialUse) == TRUE

\* if (!['\\Junk', '\\Trash'].includes(mailbox.specialUse)) $set.searchable = true
SearchableAfterUndelete(searchable, specialUse) ==
  IF specialUse \notin {"\\Junk", "\\Trash"} THEN TRUE ELSE searchable

\* case 'remove'
RemoveAction(row, value, specialUse) ==
  LET flagUpdates == {getFlag(f) : f \in Range(value)}
      oldFlags == {f \in row.flags : getFlag(f) \in flagUpdates}
      upd == oldFlags # {}
      flags == row.flags \ oldFlags
  IN [updated |-> upd, flags |-> flags,
      row |-> IF upd
              THEN [row EXCEPT
                      !.flags = flags,
                      !.unseen = IF "\\Seen" \in oldFlags THEN TRUE ELSE @,
                      !.flagged = IF "\\Flagged" \in oldFlags THEN FALSE ELSE @,
                      !.undeleted = IF "\\Deleted" \in oldFlags THEN TRUE ELSE @,
                      !.searchable = IF "\\Deleted" \in oldFlags
                                     THEN SearchableAfterUndelete(@, specialUse)
                                     ELSE @,
                      !.draft = IF "\\Draft" \in oldFlags THEN FALSE ELSE @]
              ELSE row]

\* switch (update.action), the three known cases
ApplyAction(u, row, specialUse) ==
  CASE u.action = "set" -> SetAction(row, u.value)
    [] u.action = "add" -> AddAction(row, u.value)
    [] OTHER -> RemoveAction(row, u.value, specialUse)

KnownAction(u) == u.action \in {"set", "add", "remove"}

(* ------------------------ candidate selection -------------------------- *)
\* update.messages.length === session.selected.uidList.length
QueryAll(u, sel) == Cardinality(u.messages) = Cardinality(sel.uidList)

\* the rows the SELECT returns, sorted by uid
RECURSIVE SortedSeq(_)
SortedSeq(S) ==
  IF S = {} THEN <<>>
  ELSE LET m == CHOOSE x \in S : \A y \in S : x <= y
       IN <<m>> \o SortedSeq(S \ {m})

Candidates(u, sel) ==
  SortedSeq(IF QueryAll(u, sel) THEN UIDs ELSE {uid \in UIDs : uid \in u.messages})

\* skip messages if necessary
SkipQueryAll(u, sel, uid) == QueryAll(u, sel) /\ uid \notin sel.uidList

\* update.unchangedSince && message.modseq > update.unchangedSince
SkipUnchangedSince(u, row) ==
  /\ u.unchangedSince # NoGuard
  /\ u.unchangedSince # 0
  /\ row.modseq > u.unchangedSince

\* a fresh modseq for every message
NextModseq_PerMessage(newModseq, mb) ==
  IF newModseq = NoModseq THEN mb.modifyIndex + 1 ELSE newModseq + 1

\* if (!newModseq) newModseq = mailbox.modifyIndex + 1
NextModseq(newModseq, mb) ==
  IF newModseq = NoModseq THEN mb.modifyIndex + 1 ELSE newModseq

\* the UPDATE of one Messages row with the comparison turned round ($gt)
WriteRow_Inverted(stored, row, newModseq) ==
  IF stored.modseq > newModseq THEN [row EXCEPT !.modseq = newModseq] ELSE stored

\* the UPDATE of one Messages row, conditioned on modseq < newModseq
WriteRow(stored, row, newModseq) ==
  IF stored.modseq < newModseq THEN [row EXCEPT !.modseq = newModseq] ELSE stored

\* the FETCH response pushed to writeStream
Response(u, sel, uid, flags, newModseq) ==
  [uid |-> uid,
   uidField |-> IF u.isUid THEN uid ELSE 0,
   flags |-> flags,
   modseq |-> IF sel.condstoreEnabled THEN newModseq ELSE 0]

\* a silent command never answers
Responds_UnlessSilent(u, sel) == ~u.silent

\* if (!update.silent || condstoreEnabled)
Responds(u, sel) == ~u.silent \/ sel.condstoreEnabled

\* the entry pushed to entries
Entry(sid, uid, flags, newModseq) ==
  [command |-> "FETCH", ignore |-> sid, uid |-> uid, flags |-> flags,
   modseq |-> newModseq]

\* for (const result of messages) { .. }: one pass of the loop body
LoopBody(acc, u, sel, mb, sid, uid) ==
  LET row == acc.rows[uid]
      r == ApplyAction(u, row, mb.specialUse)
      newModseq == NextModseq(acc.newModseq, mb)
  IN IF SkipQueryAll(u, sel, uid) THEN acc
     ELSE IF SkipUnchangedSince(u, row)
     THEN [acc EXCEPT !.modified = Append(@, uid)]
     ELSE IF ~KnownAction(u) THEN [acc EXCEPT !.threw = "Unknown action"]
     ELSE IF ~r.updated THEN acc
     ELSE [acc EXCEPT
             !.newModseq = newModseq,
             !.updated = @ \cup {uid},
             !.writeStream = IF Responds(u, sel)
                             THEN Append(@, Response(u, sel, uid, r.flags, newModseq))
                             ELSE @,
             !.rows = [@ EXCEPT ![uid] = WriteRow(row, r.row, newModseq)],
             !.entries = Append(@, Entry(sid, uid, r.flags, newModseq))]

RECURSIVE Loop(_, _, _, _, _, _)
Loop(acc, cands, u, sel, mb, sid) ==
  IF cands = <<>> \/ acc.threw # "" THEN acc
  ELSE Loop(LoopBody(acc, u, sel, mb, sid, Head(cands)), Tail(cands), u, sel, mb, sid)

(* ------------------------ mailbox vocabulary --------------------------- *)
\* [...imapTools.systemFlags, ...(mailbox.flags || [])].map((f) => getFlag(f))
MailboxFlagsLen(mb) == Len(systemFlags) + mb.otherFlags + Cardinality(mb.flags)
MailboxFlags(mb) == {getFlag(f) : f \in Range(systemFlags) \cup mb.flags}

\* a limit that is never reached
ExceedsLimit_Never(mailboxFlagsLen, newFlagsLen) == FALSE

\* if (mailboxFlags.length + newFlags.length >= 100)
ExceedsLimit(mailboxFlagsLen, newFlagsLen) ==
  mailboxFlagsLen + newFlagsLen >= MaxMailboxFlags

\* for (const flag of update.value) { .. }
RECURSIVE VocabularyLoop(_, _, _)
VocabularyLoop(value, mb, newFlags) ==
  IF value = <<>> THEN [threw |-> "", newFlags |-> newFlags]
  ELSE IF ExceedsLimit(MailboxFlagsLen(mb), Len(newFlags))
  THEN [threw |-> "Mailbox flags exceeds 100", newFlags |-> newFlags]
  ELSE VocabularyLoop(Tail(value), mb,
         IF getFlag(Head(value)) \notin MailboxFlags(mb)
         THEN Append(newFlags, Head(value)) ELSE newFlags)

\* the vocabulary grows for add only
NewMailboxFlags_AddOnly(u, mb) ==
  IF u.action = "add" THEN VocabularyLoop(u.value, mb, <<>>)
  ELSE [threw |-> "", newFlags |-> <<>>]

\* const newFlags = []; if (update.action !== 'remove') { .. }
NewMailboxFlags(u, mb) ==
  IF u.action # "remove" THEN VocabularyLoop(u.value, mb, <<>>)
  ELSE [threw |-> "", newFlags |-> <<>>]

\* the UPDATE of the Mailboxes row that counts every command
WriteMailbox_BumpAlways(stored, mb, newModseq, newFlags) ==
  [stored EXCEPT
     !.modifyIndex = IF newModseq # NoModseq THEN newModseq ELSE @ + 1,
     !.flags = IF Len(newFlags) > 0 THEN mb.flags \cup Range(newFlags) ELSE @]

\* the UPDATE of the Mailboxes row that leaves modifyIndex out
WriteMailbox_FlagsOnly(stored, mb, newModseq, newFlags) ==
  IF Len(newFlags) > 0
  THEN [stored EXCEPT !.flags = mb.flags \cup Range(newFlags)]
  ELSE stored

\* the UPDATE of the Mailboxes row
WriteMailbox(stored, mb, newModseq, newFlags) ==
  IF newModseq # NoModseq \/ Len(newFlags) > 0
  THEN [stored EXCEPT
          !.modifyIndex = IF newModseq # NoModseq THEN newModseq ELSE @,
          !.flags = IF Len(newFlags) > 0 THEN mb.flags \cup Range(newFlags) ELSE @]
  ELSE stored

(* ---------------- session.db.transaction(() => { .. })() --------------- *)
\* what lines 128-402 leave behind: the tables (rolled back when the body
\* threw), err, and the three arrays
StoreTransaction(rows, stored, mb, u, sel, sid) ==
  LET cands == Candidates(u, sel)
      acc0 == [rows |-> rows, modified |-> <<>>, writeStream |-> <<>>,
               entries |-> <<>>, newModseq |-> NoModseq, updated |-> {},
               threw |-> ""]
      acc == Loop(acc0, cands, u, sel, mb, sid)
      voc == IF acc.threw = "" THEN NewMailboxFlags(u, mb)
             ELSE [threw |-> acc.threw, newFlags |-> <<>>]
  IN IF cands = <<>>
     THEN [messages |-> rows, mailbox |-> stored, err |-> "", modified |-> <<>>,
           writeStream |-> <<>>, entries |-> <<>>, updated |-> {}]
     ELSE IF voc.threw # ""
     THEN [messages |-> rows, mailbox |-> stored, err |-> voc.threw,
           modified |-> acc.modified, writeStream |-> acc.writeStream,
           entries |-> acc.entries, updated |-> acc.updated]
     ELSE [messages |-> acc.rows,
           mailbox |-> WriteMailbox(stored, mb, acc.newModseq, voc.newFlags),
           err |-> "", modified |-> acc.modified,
           writeStream |-> acc.writeStream, entries |-> acc.entries,
           updated |-> acc.updated]

\* the transaction has statements to run that write a row
Writes(r, rows, stored) ==
  r.err = "" /\ (r.messages # rows \/ r.mailbox # stored)

\* a failed statement that leaves the earlier writes of the body in place
StorageFailure_Partial(r, rows, stored) == [r EXCEPT !.err = "SqliteError"]

\* session.db.prepare(sql.query).run(sql.values) of line 396 throws: the
\* transaction function rolls back and rethrows, the catch keeps the error
StorageFailure(r, rows, stored) ==
  [r EXCEPT !.messages = rows, !.mailbox = stored, !.err = "SqliteError"]

(* --------------------------- callback values --------------------------- *)
\* fn(null, true, modified, writeStream)
CbSuccess(m, ws) ==
  [err |-> FALSE, bool |-> "true", response |-> m, hasResponse |-> TRUE,
   writeStream |-> ws, hasWriteStream |-> TRUE]
\* fn(null, err.imapResponse)
CbImapResponse(code) ==
  [err |-> FALSE, bool |-> code, response |-> <<>>, hasResponse |-> FALSE,
   writeStream |-> <<>>, hasWriteStream |-> FALSE]
\* fn(err) and fn(refineAndLogError(err, session, true, this))
CbError ==
  [err |-> TRUE, bool |-> "", response |-> <<>>, hasResponse |-> FALSE,
   writeStream |-> <<>>, hasWriteStream |-> FALSE]
\* fn has not been called
NoOutcome ==
  [err |-> FALSE, bool |-> "", response |-> <<>>, hasResponse |-> FALSE,
   writeStream |-> <<>>, hasWriteStream |-> FALSE]

InitRow ==
  [flags |-> {}, modseq |-> 1, unseen |-> TRUE, flagged |-> FALSE,
   undeleted |-> TRUE, draft |-> FALSE, searchable |-> TRUE]
NoMailbox == [found |-> FALSE, modifyIndex |-> 0, flags |-> {}, otherFlags |-> 0,
              specialUse |-> ""]
NoPre == [messages |-> [uid \in UIDs |-> InitRow], modifyIndex |-> 0,
          flags |-> {}, otherFlags |-> 0]

\* an ordinary, a Trash or a Junk mailbox with a small vocabulary, and ordinary
\* mailboxes whose vocabulary is close to the limit
InitMailboxes ==
  [modifyIndex : {1}, flags : {{}}, otherFlags : {0}, specialUse : SpecialUses]
  \cup [modifyIndex : {1}, flags : {{}}, otherFlags : OtherFlagCounts,
        specialUse : {""}]

\* what Mailboxes.findOne returns for a row
Found(row) ==
  [found |-> TRUE, modifyIndex |-> row.modifyIndex, flags |-> row.flags,
   otherFlags |-> row.otherFlags, specialUse |-> row.specialUse]

\* STORE commands that ran on message 1 before the behaviour starts
EarlierCommands ==
  [action : {"add"}, value : {<<"\\Deleted">>, <<"\\Seen">>},
   messages : {{1}}, unchangedSince : {NoGuard}, silent : {FALSE}, isUid : {TRUE}]
  \cup [action : {"set"}, value : {<<"foo", "Foo">>},
        messages : {{1}}, unchangedSince : {NoGuard}, silent : {FALSE},
        isUid : {TRUE}]
EarlierSelected == [uidList |-> {1, 2}, condstoreEnabled |-> FALSE]

\* the tables as delivery left them, or as one earlier STORE command then
\* left them
InitTables ==
  LET fresh == [uid \in UIDs |-> InitRow]
  IN {[messages |-> fresh, mailbox |-> mb] : mb \in InitMailboxes}
     \cup {LET r == StoreTransaction(fresh, mb, Found(mb), u, EarlierSelected, 1)
           IN [messages |-> r.messages, mailbox |-> r.mailbox] :
           mb \in InitMailboxes, u \in EarlierCommands}

Init ==
  /\ \E t \in InitTables :
       /\ messages = t.messages
       /\ mailbox = t.mailbox
  /\ lock = 0
  /\ pc = [p \in AllProcs |-> "idle"]
  /\ wsp = [p \in AllProcs |-> FALSE]
  /\ mbox = [p \in AllProcs |-> NoMailbox]
  /\ update = [p \in AllProcs |-> NoUpdate]
  /\ selected = [p \in AllProcs |-> NoSelected]
  /\ pre = [p \in AllProcs |-> NoPre]
  /\ err = [p \in AllProcs |-> ""]
  /\ modified = [p \in AllProcs |-> <<>>]
  /\ writeStream = [p \in AllProcs |-> <<>>]
  /\ entries = [p \in AllProcs |-> <<>>]
  /\ updated = [p \in AllProcs |-> {}]
  /\ acquired = [p \in AllProcs |-> FALSE]
  /\ released = [p \in AllProcs |-> FALSE]
  /\ notifyFailed = [p \in AllProcs |-> FALSE]
  /\ refreshed = [p \in AllProcs |-> FALSE]
  /\ wrote = [p \in AllProcs |-> FALSE]
  /\ releaseFailed = [p \in AllProcs |-> FALSE]
  /\ handed = [p \in AllProcs |-> <<>>]
  /\ workerOut = [p \in AllProcs |-> NoOutcome]
  /\ stream = [p \in AllProcs |-> <<>>]
  /\ outcome = [p \in AllProcs |-> NoOutcome]
  /\ calls = [p \in AllProcs |-> 0]
  /\ invocations = 0

\* the update, the session view and the snapshot matter to the transaction
\* step only; the steps after it never read them
ForgetCommand(p) ==
  /\ update' = [update EXCEPT ![p] = NoUpdate]
  /\ selected' = [selected EXCEPT ![p] = NoSelected]
  /\ pre' = [pre EXCEPT ![p] = NoPre]

\* the local path ends by calling fn; under a worker the arguments travel
\* back to the forwarding handler
Deliver(p, args) ==
  IF wsp[p]
  THEN /\ workerOut' = [workerOut EXCEPT ![p] = args]
       /\ pc' = [pc EXCEPT ![p] = "relay"]
       /\ UNCHANGED <<outcome, calls, stream>>
  ELSE /\ outcome' = [outcome EXCEPT ![p] = args]
       /\ calls' = [calls EXCEPT ![p] = @ + 1]
       /\ pc' = [pc EXCEPT ![p] = "done"]
       /\ UNCHANGED <<workerOut, stream>>

(* --------------------------- the lock service -------------------------- *)
\* acquire grants the lock of a handle only while no invocation holds it
LockFree(l) == l = 0
\* release frees the lock that its holder hands back
AfterRelease(l, p) == IF l = p THEN 0 ELSE l

(* ------------------------------ actions -------------------------------- *)
\* onStore is invoked, with or without this.wsp
Invoke(p, modes) ==
  /\ invocations' = invocations + 1
  /\ \E w \in modes :
       /\ wsp' = [wsp EXCEPT ![p] = w]
       /\ pc' = [pc EXCEPT ![p] = IF w THEN "request" ELSE "refresh"]
  /\ mbox' = [mbox EXCEPT ![p] = NoMailbox]
  /\ ForgetCommand(p)
  /\ err' = [err EXCEPT ![p] = ""]
  /\ modified' = [modified EXCEPT ![p] = <<>>]
  /\ writeStream' = [writeStream EXCEPT ![p] = <<>>]
  /\ entries' = [entries EXCEPT ![p] = <<>>]
  /\ updated' = [updated EXCEPT ![p] = {}]
  /\ acquired' = [acquired EXCEPT ![p] = FALSE]
  /\ released' = [released EXCEPT ![p] = FALSE]
  /\ notifyFailed' = [notifyFailed EXCEPT ![p] = FALSE]
  /\ refreshed' = [refreshed EXCEPT ![p] = FALSE]
  /\ wrote' = [wrote EXCEPT ![p] = FALSE]
  /\ releaseFailed' = [releaseFailed EXCEPT ![p] = FALSE]
  /\ handed' = [handed EXCEPT ![p] = <<>>]
  /\ workerOut' = [workerOut EXCEPT ![p] = NoOutcome]
  /\ stream' = [stream EXCEPT ![p] = <<>>]
  /\ outcome' = [outcome EXCEPT ![p] = NoOutcome]
  /\ calls' = [calls EXCEPT ![p] = 0]
  /\ UNCHANGED dbVars

\* a session sends one command after the other
Start(p) ==
  /\ pc[p] \in {"idle", "done"}
  /\ invocations < MaxCommands
  /\ Invoke(p, BOOLEAN)

\* each of two sessions sends one command to a server that runs it locally
StartLocal(p) ==
  /\ pc[p] = "idle"
  /\ Invoke(p, {FALSE})

\* await this.wsp.request(..) reaches the worker, which runs the local path
Request(p) ==
  /\ UNCHANGED <<invocations, auxVars>>
  /\ pc[p] = "request"
  /\ pc' = [pc EXCEPT ![p] = "refresh"]
  /\ UNCHANGED <<dbVars, wsp, mbox, txVars, acquired, released, notifyFailed,
                 handed, cbVars>>

\* the rejection is dropped: fn is not called
RequestFail_Silent(p) ==
  /\ UNCHANGED <<invocations, auxVars>>
  /\ pc[p] = "request"
  /\ pc' = [pc EXCEPT ![p] = "done"]
  /\ UNCHANGED <<dbVars, wsp, mbox, txVars, acquired, released, notifyFailed,
                 handed, workerOut, stream, outcome, calls>>

\* this.wsp.request rejects before the worker is reached: fn(err)
RequestFail(p) ==
  /\ UNCHANGED <<invocations, auxVars>>
  /\ pc[p] = "request"
  /\ pc' = [pc EXCEPT ![p] = "done"]
  /\ outcome' = [outcome EXCEPT ![p] = CbError]
  /\ calls' = [calls EXCEPT ![p] = @ + 1]
  /\ UNCHANGED <<dbVars, wsp, mbox, txVars, acquired, released, notifyFailed,
                 handed, workerOut, stream>>

\* acquireLock is called without await: the handler goes on at once
AcquireLock_NotAwaited(p) ==
  /\ UNCHANGED <<invocations, auxVars>>
  /\ pc[p] = "acquire"
  /\ lock' = IF LockFree(lock) THEN p ELSE lock
  /\ acquired' = [acquired EXCEPT ![p] = TRUE]
  /\ pc' = [pc EXCEPT ![p] = "find"]
  /\ UNCHANGED <<messages, mailbox, wsp, mbox, txVars, released, notifyFailed,
                 handed, cbVars>>

\* await this.refreshSession(session, 'STORE')
RefreshSession(p) ==
  /\ UNCHANGED <<invocations, wrote, releaseFailed>>
  /\ refreshed' = [refreshed EXCEPT ![p] = TRUE]
  /\ pc[p] = "refresh"
  /\ pc' = [pc EXCEPT ![p] = "acquire"]
  /\ UNCHANGED <<dbVars, wsp, mbox, txVars, acquired, released, notifyFailed,
                 handed, cbVars>>

RefreshFail(p) ==
  /\ UNCHANGED <<invocations, wrote, releaseFailed>>
  /\ refreshed' = [refreshed EXCEPT ![p] = TRUE]
  /\ pc[p] = "refresh"
  /\ Deliver(p, CbError)
  /\ UNCHANGED <<dbVars, wsp, mbox, txVars, acquired, released, notifyFailed,
                 handed>>

\* const lock = await acquireLock(this, session.db)
AcquireLock(p) ==
  /\ UNCHANGED <<invocations, auxVars>>
  /\ pc[p] = "acquire"
  /\ LockFree(lock)
  /\ lock' = p
  /\ acquired' = [acquired EXCEPT ![p] = TRUE]
  /\ pc' = [pc EXCEPT ![p] = "find"]
  /\ UNCHANGED <<messages, mailbox, wsp, mbox, txVars, released, notifyFailed,
                 handed, cbVars>>

AcquireFail(p) ==
  /\ UNCHANGED <<invocations, auxVars>>
  /\ pc[p] = "acquire"
  /\ Deliver(p, CbError)
  /\ UNCHANGED <<dbVars, wsp, mbox, txVars, acquired, released, notifyFailed,
                 handed>>

\* const mailbox = await Mailboxes.findOne(this, session, { _id: mailboxId })
FindOne(p) ==
  /\ UNCHANGED <<invocations, auxVars>>
  /\ pc[p] = "find"
  /\ \E exists \in BOOLEAN :
       mbox' = [mbox EXCEPT ![p] =
                  IF exists
                  THEN Found(mailbox)
                  ELSE NoMailbox]
  /\ pc' = [pc EXCEPT ![p] = "txn"]
  /\ UNCHANGED <<dbVars, wsp, txVars, acquired, released, notifyFailed,
                 handed, cbVars>>

\* the outer catch without its return: fn(null, err.imapResponse), then
\* fn(refineAndLogError(..)) as well
MailboxMissing_NoReturn(p) ==
  /\ UNCHANGED <<invocations, auxVars>>
  /\ pc[p] = "txn"
  /\ ~mbox[p].found
  /\ outcome' = [outcome EXCEPT ![p] = CbError]
  /\ calls' = [calls EXCEPT ![p] = @ + 2]
  /\ pc' = [pc EXCEPT ![p] = "done"]
  /\ UNCHANGED <<dbVars, wsp, mbox, txVars, acquired, released, notifyFailed,
                 handed, workerOut, stream>>

\* if (!mailbox) throw new IMAPError(.., { imapResponse: 'NONEXISTENT' }),
\* caught by the outer catch: fn(null, err.imapResponse)
MailboxMissing(p) ==
  /\ UNCHANGED <<invocations, auxVars>>
  /\ pc[p] = "txn"
  /\ ~mbox[p].found
  /\ Deliver(p, CbImapResponse("NONEXISTENT"))
  /\ UNCHANGED <<dbVars, wsp, mbox, txVars, acquired, released, notifyFailed,
                 handed>>

\* building or running the SELECT throws: the outer catch reports it
QueryFail(p) ==
  /\ UNCHANGED <<invocations, auxVars>>
  /\ pc[p] = "txn"
  /\ mbox[p].found
  /\ Deliver(p, CbError)
  /\ UNCHANGED <<dbVars, wsp, mbox, txVars, acquired, released, notifyFailed,
                 handed>>

\* the transaction of command c has left r behind
Commit(p, c, r) ==
  /\ update' = [update EXCEPT ![p] = c[1]]
  /\ selected' = [selected EXCEPT ![p] = c[2]]
  /\ messages' = r.messages
  /\ mailbox' = r.mailbox
  /\ err' = [err EXCEPT ![p] = r.err]
  /\ modified' = [modified EXCEPT ![p] = r.modified]
  /\ writeStream' = [writeStream EXCEPT ![p] = r.writeStream]
  /\ entries' = [entries EXCEPT ![p] = r.entries]
  /\ updated' = [updated EXCEPT ![p] = r.updated]
  /\ wrote' = [wrote EXCEPT ![p] =
                 r.messages # messages \/ r.mailbox # mailbox]

\* the body that ran to its last write, and the statement there that may throw
WithStorageFailure(r, rows, stored, fails) ==
  IF fails /\ Writes(r, rows, stored)
  THEN StorageFailure(r, rows, stored)
  ELSE r

\* the SELECT and session.db.transaction(..)(), up to the call of releaseLock
RunTransaction(p, commands) ==
  /\ UNCHANGED <<invocations, refreshed, releaseFailed>>
  /\ pc[p] = "txn"
  /\ mbox[p].found
  /\ \E c \in commands, fails \in BOOLEAN :
       Commit(p, c,
              WithStorageFailure(
                StoreTransaction(messages, mailbox, mbox[p], c[1], c[2], p),
                messages, mailbox, fails))
  /\ pre' = [pre EXCEPT ![p] =
               [messages |-> messages, modifyIndex |-> mailbox.modifyIndex,
                flags |-> mailbox.flags, otherFlags |-> mailbox.otherFlags]]
  /\ pc' = [pc EXCEPT ![p] = "release"]
  /\ UNCHANGED <<lock, wsp, mbox, acquired, released, notifyFailed, handed,
                 cbVars>>

Transaction(p) ==
  RunTransaction(p, IF wsp[p] THEN ForwardedCommands ELSE Commands)

TransactionOfTwo(p) == RunTransaction(p, TwoCommands)

\* await releaseLock(this, session.db, lock)
ReleaseLock(p) ==
  /\ UNCHANGED <<invocations, auxVars>>
  /\ pc[p] = "release"
  /\ lock' = AfterRelease(lock, p)
  /\ released' = [released EXCEPT ![p] = TRUE]
  /\ pc' = [pc EXCEPT ![p] = "storage"]
  /\ ForgetCommand(p)
  /\ UNCHANGED <<messages, mailbox, wsp, mbox, err, modified, writeStream,
                 entries, updated, acquired, notifyFailed, handed, cbVars>>

\* releaseLock rejects: logged as fatal, the lock stays
ReleaseFail(p) ==
  /\ UNCHANGED <<invocations, refreshed, wrote>>
  /\ releaseFailed' = [releaseFailed EXCEPT ![p] = TRUE]
  /\ pc[p] = "release"
  /\ released' = [released EXCEPT ![p] = TRUE]
  /\ pc' = [pc EXCEPT ![p] = "storage"]
  /\ ForgetCommand(p)
  /\ UNCHANGED <<dbVars, wsp, mbox, err, modified, writeStream, entries,
                 updated, acquired, notifyFailed, handed, cbVars>>

\* the entries go to the notifier before err is looked at
UpdateStorageUsed_NotifyFirst(p) ==
  /\ UNCHANGED <<invocations, auxVars>>
  /\ pc[p] = "storage"
  /\ IF Len(entries[p]) > 0
     THEN /\ pc' = [pc EXCEPT ![p] = "notify"]
          /\ UNCHANGED cbVars
     ELSE IF err[p] # ""
     THEN Deliver(p, CbError)
     ELSE Deliver(p, CbSuccess(modified[p], writeStream[p]))
  /\ UNCHANGED <<dbVars, wsp, mbox, txVars, acquired, released, notifyFailed,
                 handed>>

\* await updateStorageUsed(..) settles (a rejection is only logged), then
\* if (err) throw err; if (entries.length > 0) await addEntries; else fn(..)
UpdateStorageUsed(p) ==
  /\ UNCHANGED <<invocations, auxVars>>
  /\ pc[p] = "storage"
  /\ IF err[p] # ""
     THEN Deliver(p, CbError)
     ELSE IF Len(entries[p]) > 0
     THEN /\ pc' = [pc EXCEPT ![p] = "notify"]
          /\ UNCHANGED cbVars
     ELSE Deliver(p, CbSuccess(modified[p], writeStream[p]))
  /\ UNCHANGED <<dbVars, wsp, mbox, txVars, acquired, released, notifyFailed,
                 handed>>

\* await this.server.notifier.addEntries(..) resolves; notifier.fire; fn(..)
AddEntries(p) ==
  /\ UNCHANGED <<invocations, auxVars>>
  /\ pc[p] = "notify"
  /\ handed' = [handed EXCEPT ![p] = entries[p]]
  /\ Deliver(p, CbSuccess(modified[p], writeStream[p]))
  /\ UNCHANGED <<dbVars, wsp, mbox, txVars, acquired, released, notifyFailed>>

\* addEntries rejects: the outer catch runs fn(refineAndLogError(err, ..))
AddEntriesFail(p) ==
  /\ UNCHANGED <<invocations, auxVars>>
  /\ pc[p] = "notify"
  /\ notifyFailed' = [notifyFailed EXCEPT ![p] = TRUE]
  /\ Deliver(p, CbError)
  /\ UNCHANGED <<dbVars, wsp, mbox, txVars, acquired, released, handed>>

\* the worker relays verbatim what its callback received: it answers
\* [bool, response, writeStream], or the request rejects with the error
WorkerReply(args) ==
  [rejected |-> args.err, bool |-> args.bool, response |-> args.response,
   hasResponse |-> args.hasResponse, writeStream |-> args.writeStream,
   hasWriteStream |-> args.hasWriteStream]

\* const [bool, response, writeStream] = await this.wsp.request(..) settles;
\* for (const write of writeStream) session.writeStream.write(..) throws a
\* TypeError when writeStream is undefined; fn(null, bool, response)
Relay(p) ==
  /\ UNCHANGED <<invocations, auxVars>>
  /\ pc[p] = "relay"
  /\ LET w == WorkerReply(workerOut[p])
     IN IF w.rejected \/ ~w.hasWriteStream
        THEN /\ outcome' = [outcome EXCEPT ![p] = CbError]
             /\ UNCHANGED stream
        ELSE /\ stream' = [stream EXCEPT ![p] = w.writeStream]
             /\ outcome' = [outcome EXCEPT ![p] =
                              [err |-> FALSE, bool |-> w.bool,
                               response |-> w.response,
                               hasResponse |-> w.hasResponse,
                               writeStream |-> <<>>, hasWriteStream |-> FALSE]]
  /\ calls' = [calls EXCEPT ![p] = @ + 1]
  /\ pc' = [pc EXCEPT ![p] = "done"]
  /\ UNCHANGED <<dbVars, wsp, mbox, txVars, acquired, released, notifyFailed,
                 handed, workerOut>>

Step(p) ==
  \/ Start(p)
  \/ Request(p)
  \/ RequestFail(p)
  \/ RefreshSession(p)
  \/ RefreshFail(p)
  \/ AcquireLock(p)
  \/ AcquireFail(p)
  \/ FindOne(p)
  \/ MailboxMissing(p)
  \/ QueryFail(p)
  \/ Transaction(p)
  \/ ReleaseLock(p)
  \/ ReleaseFail(p)
  \/ UpdateStorageUsed(p)
  \/ AddEntries(p)
  \/ AddEntriesFail(p)
  \/ Relay(p)

Next == \E p \in SeqProcs : Step(p)

Spec == Init /\ [][Next]_vars

(* ------------------------- awaited promises settle --------------------- *)
\* the promise p awaits settles and the handler runs on to its next await
Continue(p) ==
  \/ Request(p)
  \/ RequestFail(p)
  \/ RefreshSession(p)
  \/ RefreshFail(p)
  \/ AcquireLock(p)
  \/ AcquireFail(p)
  \/ FindOne(p)
  \/ MailboxMissing(p)
  \/ QueryFail(p)
  \/ Transaction(p)
  \/ ReleaseLock(p)
  \/ ReleaseFail(p)
  \/ UpdateStorageUsed(p)
  \/ AddEntries(p)
  \/ AddEntriesFail(p)
  \/ Relay(p)

SpecLive == Init /\ [][Next]_vars /\ \A p \in SeqProcs : WF_vars(Continue(p))

(* ----------------- two sessions on one backing store ------------------- *)
\* an ordinary mailbox with a small vocabulary
InitTwo == Init /\ mailbox.specialUse = "" /\ mailbox.otherFlags = 0

StepLocal(p) ==
  \/ StartLocal(p)
  \/ RefreshSession(p)
  \/ RefreshFail(p)
  \/ AcquireLock(p)
  \/ AcquireFail(p)
  \/ FindOne(p)
  \/ MailboxMissing(p)
  \/ QueryFail(p)
  \/ TransactionOfTwo(p)
  \/ ReleaseLock(p)
  \/ ReleaseFail(p)
  \/ UpdateStorageUsed(p)
  \/ AddEntries(p)
  \/ AddEntriesFail(p)

NextTwo == \E p \in AllProcs : StepLocal(p)

SpecTwo == InitTwo /\ [][NextTwo]_vars

(* ============================== claims ================================= *)
\* the transaction step of p has just run
AfterTransaction(p) == pc[p] = "release"
\* the callback of the local path has been given its arguments
HasReported(p) == pc[p] \in {"relay", "done"}
Reported(p) == IF pc[p] = "relay" THEN workerOut[p] ELSE outcome[p]
\* rows the loop took past the match-all filter
Reached(p, uid) ==
  /\ uid \in Range(Candidates(update[p], selected[p]))
  /\ ~SkipQueryAll(update[p], selected[p], uid)
RowsUnchanged(p) ==
  /\ messages = pre[p].messages
  /\ mailbox.modifyIndex = pre[p].modifyIndex
  /\ mailbox.flags = pre[p].flags
  /\ mailbox.otherFlags = pre[p].otherFlags

DerivedOK(row) ==
  /\ row.unseen = ("\\Seen" \notin row.flags)
  /\ row.flagged = ("\\Flagged" \in row.flags)
  /\ row.undeleted = ("\\Deleted" \notin row.flags)
  /\ row.draft = ("\\Draft" \in row.flags)

\* C1: after any sequence of STORE commands every message has
\* unseen = (\Seen not in flags), flagged = (\Flagged in flags),
\* undeleted = (\Deleted not in flags), draft = (\Draft in flags).
C1_DerivedBooleans == \A uid \in UIDs : DerivedOK(messages[uid])

\* an add has just put \Seen on a message that was unseen
C1_Witness ==
  \E p \in SeqProcs, uid \in UIDs :
    /\ AfterTransaction(p) /\ err[p] = ""
    /\ update[p].action = "add" /\ uid \in updated[p]
    /\ pre[p].messages[uid].unseen
    /\ "\\Seen" \in messages[uid].flags

\* C2: every message a STORE command changes carries the same new modseq,
\* the mailbox's modifyIndex before the command plus 1.
C2_OneModseq ==
  \A p \in SeqProcs : AfterTransaction(p) =>
    \A uid \in UIDs :
      (messages[uid] # pre[p].messages[uid] \/ (err[p] = "" /\ uid \in updated[p]))
        => messages[uid].modseq = pre[p].modifyIndex + 1

\* one command has changed both messages
C2_Witness ==
  \E p \in SeqProcs :
    /\ AfterTransaction(p)
    /\ \A uid \in UIDs : messages[uid] # pre[p].messages[uid]

\* C3: with an unchangedSince guard (0 included), a candidate message whose
\* modseq exceeds the guard is left unchanged and is listed in modified.
C3_GuardedUntouched ==
  \A p \in SeqProcs : AfterTransaction(p) =>
    \A uid \in UIDs :
      ( /\ update[p].unchangedSince # NoGuard
        /\ Reached(p, uid)
        /\ pre[p].messages[uid].modseq > update[p].unchangedSince )
      => /\ messages[uid] = pre[p].messages[uid]
         /\ uid \in Range(modified[p])

\* the same add, applied to the tables as the first application left them
SecondApplication(p) ==
  StoreTransaction(messages, mailbox, Found(mailbox), update[p], selected[p], p)
SecondIsNoOp(p) ==
  LET r == SecondApplication(p)
  IN /\ r.updated = {}
     /\ r.messages = messages
     /\ r.mailbox.modifyIndex = mailbox.modifyIndex
     /\ r.entries = <<>>

Introduced(p) ==
  {f \in Range(update[p].value) :
     getFlag(f) \notin {getFlag(g) : g \in Range(systemFlags) \cup pre[p].flags}}
OverCapacity(p) ==
  /\ update[p].action \in {"add", "set"}
  /\ pre[p].otherFlags + Cardinality(pre[p].flags) + Cardinality(Introduced(p))
       >= MaxMailboxFlags
FailsWithoutWrites(p) ==
  /\ err[p] # ""
  /\ RowsUnchanged(p)

\* C5 as stated: an add or set whose new flags bring the custom vocabulary
\* to 100 or more fails and commits no write.
C5_CapacityAborts ==
  \A p \in SeqProcs :
    (AfterTransaction(p) /\ OverCapacity(p)) => FailsWithoutWrites(p)

\* C5 amended: the same for a command with a non-empty flag list whose
\* SELECT returns at least one row; the error of the transaction is then
\* what the callback reports.
C5_CapacityAbortsWithCandidates ==
  \A p \in SeqProcs :
    /\ ( /\ AfterTransaction(p) /\ OverCapacity(p)
         /\ update[p].value # <<>>
         /\ Candidates(update[p], selected[p]) # <<>> )
       => FailsWithoutWrites(p)
    /\ (HasReported(p) /\ err[p] # "") => Reported(p).err

\* a row was written and then rolled back by the capacity error
C5_Witness ==
  \E p \in SeqProcs :
    /\ AfterTransaction(p) /\ OverCapacity(p)
    /\ updated[p] # {}
    /\ err[p] = "Mailbox flags exceeds 100"

\* C6: whenever the handler has acquired the lock, releaseLock has been
\* called before the outcome is reported.
C6_ReleasedBeforeReport ==
  \A p \in SeqProcs : (HasReported(p) /\ acquired[p]) => released[p]

\* C7: when addEntries fails after the commit, the command still reports
\* success with the modified list.
C7_NotifierFailureSwallowed ==
  \A p \in SeqProcs :
    (HasReported(p) /\ notifyFailed[p])
      => /\ ~Reported(p).err
         /\ Reported(p).bool = "true"
         /\ Reported(p).response = modified[p]

\* the flag list is, without repetition, the flag set of every candidate
ExactCurrentFlags(p) ==
  /\ Len(update[p].value) = Cardinality(Range(update[p].value))
  /\ \A uid \in Range(Candidates(update[p], selected[p])) :
       pre[p].messages[uid].flags = Range(update[p].value)

\* C8: a set whose flag list is the current flag set of every candidate
\* updates nothing: no row written, modifyIndex unchanged, no entry, no
\* response.
C8_SetSameFlags ==
  \A p \in SeqProcs :
    (AfterTransaction(p) /\ update[p].action = "set" /\ ExactCurrentFlags(p))
      => /\ updated[p] = {}
         /\ messages = pre[p].messages
         /\ mailbox.modifyIndex = pre[p].modifyIndex
         /\ entries[p] = <<>>
         /\ writeStream[p] = <<>>

\* C9: a remove that takes \Deleted off a message sets undeleted, sets
\* searchable when the mailbox is neither Trash nor Junk, and leaves
\* searchable as it was when it is Trash or Junk.
C9_UndeleteSearchable ==
  \A p \in SeqProcs :
    (AfterTransaction(p) /\ update[p].action = "remove") =>
      \A uid \in UIDs :
        ( /\ "\\Deleted" \in pre[p].messages[uid].flags
          /\ "\\Deleted" \notin messages[uid].flags )
        => /\ messages[uid].undeleted
           /\ messages[uid].searchable =
                IF mailbox.specialUse \in {"\\Trash", "\\Junk"}
                THEN pre[p].messages[uid].searchable
                ELSE TRUE

\* in a Trash or Junk mailbox a message that was not searchable lost \Deleted
C9_Witness ==
  \E p \in SeqProcs, uid \in UIDs :
    /\ AfterTransaction(p) /\ update[p].action = "remove"
    /\ mailbox.specialUse \in {"\\Trash", "\\Junk"}
    /\ "\\Deleted" \in pre[p].messages[uid].flags
    /\ "\\Deleted" \notin messages[uid].flags
    /\ ~pre[p].messages[uid].searchable

\* what the caller can observe of an outcome
Observable(o, written) ==
  [status |-> IF o.err THEN "error" ELSE o.bool,
   modified |-> o.response,
   responses |-> IF o.hasWriteStream THEN o.writeStream ELSE written]

\* C10: the caller of a delegated command observes what the local path, run
\* by the worker, reported: same status, same modified list, same responses.
C10_DelegatedEqualsLocal ==
  \A p \in SeqProcs :
    (pc[p] = "done" /\ wsp[p] /\ workerOut[p] # NoOutcome)
      => Observable(outcome[p], stream[p]) = Observable(workerOut[p], <<>>)

\* the request of p was rejected before a worker had taken it
ForwardFailed(p) == wsp[p] /\ pc[p] = "done" /\ workerOut[p] = NoOutcome

\* C11: when forwarding a delegated command fails, the callback gets the
\* error and the handler has taken no local step: no session refresh, no
\* lock acquired or released, no table written, nothing given to the
\* notifier.
C11_ForwardFailureNoLocalStep ==
  \A p \in SeqProcs :
    ForwardFailed(p) =>
      /\ outcome[p] = CbError
      /\ calls[p] = 1
      /\ ~refreshed[p]
      /\ ~acquired[p] /\ ~released[p]
      /\ ~wrote[p]
      /\ handed[p] = <<>> /\ ~notifyFailed[p]

\* a forwarded command has ended without reaching a worker
C11_Witness == \E p \in SeqProcs : ForwardFailed(p) /\ calls[p] = 1

\* an outcome that names its failure with a response code
NamedFailure(o) == ~o.err /\ o.bool \notin {"", "true"}

\* C12: a command that fails on the vocabulary limit reports a named
\* failure carrying a response code, as a missing mailbox does, and not a
\* generic command error.
C12_CapacityNamedFailure ==
  \A p \in SeqProcs :
    (HasReported(p) /\ err[p] = "Mailbox flags exceeds 100")
      => NamedFailure(Reported(p))

\* C13: a command whose action is none of set, add, remove ends in a
\* failure and commits no write, whatever its candidates are (none, or all
\* of them skipped by the match-all filter or the unchangedSince guard).
C13_UnknownActionFails ==
  \A p \in SeqProcs :
    (AfterTransaction(p) /\ ~KnownAction(update[p]))
      => /\ err[p] # ""
         /\ RowsUnchanged(p)

\* C14: a command changes no message outside its requested message set,
\* whatever the session's uidList is, match-all by equal length included.
C14_FrameOutsideRequest ==
  \A p \in SeqProcs : AfterTransaction(p) =>
    \A uid \in UIDs \ update[p].messages :
      messages[uid] = pre[p].messages[uid]

\* p is between the grant of the lock and the call of releaseLock
InCriticalSection(p) == pc[p] \in {"find", "txn", "release"}
\* the Mailboxes row as the transaction of p found it
PreMailbox(p) ==
  [modifyIndex |-> pre[p].modifyIndex, flags |-> pre[p].flags,
   otherFlags |-> pre[p].otherFlags, specialUse |-> mailbox.specialUse]
\* the command of p, run alone on the tables its transaction found
RunAlone(p) ==
  StoreTransaction(pre[p].messages, PreMailbox(p), Found(PreMailbox(p)),
                   update[p], selected[p], p)
\* p has committed a change of some message
Stamped(p) == wrote[p] /\ err[p] = "" /\ Len(entries[p]) > 0

\* C15: the critical sections of two local commands never overlap: each
\* transaction works on the mailbox row it read and leaves the tables as
\* the command run alone would, so the outcome is that of the two commands
\* one after the other, and two commands never stamp the same modseq.
C15_Serialized ==
  /\ \A p, q \in AllProcs :
       p # q => ~(InCriticalSection(p) /\ InCriticalSection(q))
  /\ \A p \in AllProcs :
       (pc[p] = "txn" /\ mbox[p].found) => mbox[p] = Found(mailbox)
  /\ \A p \in AllProcs :
       (AfterTransaction(p) /\ err[p] = RunAlone(p).err)
         => /\ messages = RunAlone(p).messages
            /\ mailbox = RunAlone(p).mailbox
  /\ \A p, q \in AllProcs :
       (p # q /\ Stamped(p) /\ Stamped(q))
         => entries[p][1].modseq # entries[q][1].modseq

\* both commands have changed message 1, one after the other
C15_Witness ==
  \A p \in AllProcs : Stamped(p) /\ 1 \in updated[p] /\ pc[p] = "done"

\* C16: when the transaction body raises (unknown action, vocabulary
\* limit, storage error) every message row and the mailbox row are as
\* before the command, no entry reaches the notifier, and the error is
\* reported after releaseLock has been called.
C16_FailedTransaction ==
  \A p \in SeqProcs :
    /\ (AfterTransaction(p) /\ err[p] # "") => (RowsUnchanged(p) /\ ~wrote[p])
    /\ err[p] # "" =>
         (handed[p] = <<>> /\ ~notifyFailed[p] /\ pc[p] # "notify")
    /\ (HasReported(p) /\ err[p] # "") =>
         (released[p] /\ Reported(p) = CbError)

\* a storage error after rows had been written has been reported
C16_Witness ==
  \E p \in SeqProcs :
    /\ HasReported(p) /\ err[p] = "SqliteError"
    /\ Len(entries[p]) > 0 /\ released[p]

\* the loop body of p reached the switch for this row
Processed(p, uid) ==
  /\ Reached(p, uid)
  /\ ~SkipUnchangedSince(update[p], pre[p].messages[uid])
\* the deduplicated flag list differs from the flags of the row in size or,
\* compared under getFlag, in membership
SetDiffers(row, value) ==
  \/ Cardinality(Range(value)) # Cardinality(row.flags)
  \/ {getFlag(f) : f \in Range(value)} # ExistingFlags(row)

\* C17: for set, updated is true exactly when the deduplicated flag list
\* differs from the message's flag set in size or in membership, membership
\* compared without regard to case.
C17_SetUpdatedIff ==
  \A p \in SeqProcs :
    (AfterTransaction(p) /\ update[p].action = "set") =>
      \A uid \in UIDs :
        Processed(p, uid) =>
          ((uid \in updated[p])
             <=> SetDiffers(pre[p].messages[uid], update[p].value))

\* no two flags of the row are equal under getFlag
DistinctFlags(row) == Cardinality(ExistingFlags(row)) = Cardinality(row.flags)

\* C18: an add on a message whose flags are pairwise distinct under
\* trim+lowercase leaves them pairwise distinct under trim+lowercase,
\* whatever the flag list is.
C18_AddDeduplicates ==
  \A p \in SeqProcs :
    (AfterTransaction(p) /\ update[p].action = "add") =>
      \A uid \in UIDs :
        DistinctFlags(pre[p].messages[uid]) => DistinctFlags(messages[uid])

\* the messages the command of p has changed
Mutated(p) == {uid \in UIDs : messages[uid] # pre[p].messages[uid]}

\* C19: the response list of a committed command has one FETCH response
\* per changed message when the command is not silent or CONDSTORE is
\* active, and none when it is silent and CONDSTORE is inactive; a response
\* carries the message's new flags, and its new modseq exactly when
\* CONDSTORE is active.
C19_Responses ==
  \A p \in SeqProcs :
    (AfterTransaction(p) /\ err[p] = "") =>
      LET ws == writeStream[p]
          condstore == selected[p].condstoreEnabled
      IN IF ~update[p].silent \/ condstore
         THEN /\ Len(ws) = Cardinality(Mutated(p))
              /\ {ws[i].uid : i \in 1..Len(ws)} = Mutated(p)
              /\ \A i \in 1..Len(ws) :
                   /\ ws[i].flags = messages[ws[i].uid].flags
                   /\ ws[i].modseq =
                        IF condstore THEN messages[ws[i].uid].modseq ELSE 0
         ELSE ws = <<>>

\* a silent command under CONDSTORE has answered for both messages
C19_Witness ==
  \E p \in SeqProcs :
    /\ AfterTransaction(p) /\ err[p] = ""
    /\ update[p].silent /\ selected[p].condstoreEnabled
    /\ Mutated(p) = UIDs
    /\ Len(writeStream[p]) = 2

\* addEntries has been called by p
Notifying(p) == pc[p] = "notify" \/ handed[p] # <<>> \/ notifyFailed[p]

C21_ModifyIndexSteps ==
  [][/\ mailbox'.modifyIndex >= mailbox.modifyIndex
     /\ (messages' # messages) =>
          /\ mailbox'.modifyIndex = mailbox.modifyIndex + 1
          /\ \A uid \in UIDs :
               messages'[uid] # messages[uid]
                 => messages'[uid].modseq = mailbox'.modifyIndex
     /\ (messages' = messages) =>
          mailbox'.modifyIndex = mailbox.modifyIndex]_vars

\* a command has changed both messages and raised modifyIndex by 1
C21_Witness ==
  \E p \in SeqProcs :
    /\ AfterTransaction(p) /\ err[p] = ""
    /\ Mutated(p) = UIDs
    /\ mailbox.modifyIndex = pre[p].modifyIndex + 1

\* C22: in a Trash or Junk mailbox no STORE command, whatever its action,
\* makes a message searchable that was not.
C22_TrashNeverSearchable ==
  \A p \in SeqProcs :
    (AfterTransaction(p) /\ mailbox.specialUse \in {"\\Trash", "\\Junk"}) =>
      \A uid \in UIDs :
        ~pre[p].messages[uid].searchable => ~messages[uid].searchable

\* C23: at commit the change entries are, one for one, the messages whose
\* row write took effect: the stored row has the entry's flags and modseq,
\* its modseq before the write was below the entry's, the entry names the
\* session of the command, and the notifier is handed these entries.
C23_EntriesMatchWrites ==
  \A p \in SeqProcs :
    /\ (AfterTransaction(p) /\ err[p] = "") =>
         LET es == entries[p]
         IN /\ Len(es) = Cardinality(Mutated(p))
            /\ {es[i].uid : i \in 1..Len(es)} = Mutated(p)
            /\ \A i \in 1..Len(es) :
                 /\ es[i].command = "FETCH"
                 /\ es[i].ignore = p
                 /\ es[i].flags = messages[es[i].uid].flags
                 /\ es[i].modseq = messages[es[i].uid].modseq
                 /\ pre[p].messages[es[i].uid].modseq < es[i].modseq
    /\ handed[p] # <<>> => (handed[p] = entries[p] /\ err[p] = "")

\* a command has committed two row writes and built two entries
C23_Witness ==
  \E p \in SeqProcs :
    /\ AfterTransaction(p) /\ err[p] = ""
    /\ Len(entries[p]) = 2
    /\ \A i \in 1..2 :
         messages[entries[p][i].uid].modseq = entries[p][i].modseq

\* C24: in every state that commands, one after the other or interleaved
\* under the lock, reach from tables where it holds, the modseq of every
\* message is at most the modifyIndex of its mailbox.
C24_ModseqAtMostModifyIndex ==
  \A uid \in UIDs : messages[uid].modseq <= mailbox.modifyIndex

\* two sessions have committed; message 1 carries the newest modseq and
\* message 2 an older one
C24_Witness ==
  /\ \A p \in AllProcs : Stamped(p) /\ pc[p] = "done"
  /\ messages[1].modseq = mailbox.modifyIndex
  /\ messages[2].modseq < mailbox.modifyIndex

\* C25: in every state that commands reach from tables where it holds,
\* every flag of every message is, under trim+lowercase, a system flag or a
\* flag of the mailbox's vocabulary.
C25_FlagsInVocabulary ==
  \A uid \in UIDs :
    \A f \in messages[uid].flags :
      getFlag(f) \in {getFlag(g) : g \in Range(systemFlags) \cup mailbox.flags}

\* a set has put a flag on message 1 that the vocabulary did not have
C25_Witness ==
  \E p \in SeqProcs :
    /\ AfterTransaction(p) /\ err[p] = "" /\ update[p].action = "set"
    /\ pre[p].flags = {}
    /\ "Foo" \in messages[1].flags
    /\ "Foo" \in mailbox.flags

\* onStore is running for p
Running(p) == pc[p] \notin {"idle", "done"}

\* C26: whatever step of an execution fails, local or delegated, the
\* caller's callback is called in the end, and exactly once: never before
\* the handler is through, never a second time.
C26_CalledExactlyOnce ==
  /\ [](\A p \in SeqProcs :
          /\ calls[p] <= 1
          /\ Running(p) => calls[p] = 0
          /\ pc[p] = "done" => calls[p] = 1)
  /\ \A p \in SeqProcs : Running(p) ~> (pc[p] = "done" /\ calls[p] = 1)

\* a delegated command whose worker failed has called back once
C26_Witness ==
  \E p \in SeqProcs :
    /\ pc[p] = "done" /\ calls[p] = 1
    /\ wsp[p] /\ workerOut[p] = CbError /\ outcome[p] = CbError

====
